---- MODULE Spec2Model ----
(***************************************************************************)
(* A model of fsl/props/properties_value.py: the PropertyValue and         *)
(* PropertyValueList classes.                                              *)
(*                                                                         *)
(* A PropertyValue object is a record of its attributes.  An operation is  *)
(* an operator from a "world" (the object the caller holds, the child      *)
(* PropertyValue objects of a list, the calls made so far, the exception   *)
(* in flight) to the world after the call.  Callbacks run inside the       *)
(* operation that dispatches them, as in the (single threaded) source, so  *)
(* every action below is one complete call made by a client.               *)
(***************************************************************************)
EXTENDS Integers, Sequences, FiniteSets, TLC

VARIABLES
    pv,     \* the object under test: a PropertyValue or a PropertyValueList
    items,  \* PropertyValueList.__propVals: the child PropertyValue objects
    log,    \* the callbacks invoked by the last operation, in call order
    res,    \* the last operation: its name, arguments, exception, result
    old     \* pv and items as they were when the last operation was called


(***************************************************************************)
(* The state of fsl/utils/async.py: the module level idle loop (with the   *)
(* thread made by run), and one TaskThread object.                         *)
(***************************************************************************)
VARIABLES haveWX,         \* wx.GetApp() is not None
          idleRegistered, \* _idleRegistered
          idleQueue,      \* _idleQueue, oldest IdleTask first
          idleQueueSet,   \* _idleQueueSet
          time,           \* time.time(), in seconds
          thread,         \* the closure of the Thread started by run
          handled         \* ghost: handler calls made for the last run

VARIABLES q,              \* TaskThread.__q, oldest Task first
          enqueued,       \* TaskThread.__enqueued
          stop,           \* TaskThread.__stop
          pc,             \* where TaskThread.run stands
          cur,            \* the local variable task of TaskThread.run
          tasks,          \* the Task objects made so far
          started,        \* ghost: Task objects whose func was called
          cancelled,      \* ghost: Tasks in the queue when dequeue took their name
          seen,           \* ghost: the stop flag was read as set
          stopAt          \* ghost: where run stood when stop was called

(***************************************************************************)
(* The state of one setter decorated by fsl/utils/memoize.py's             *)
(* skipUnchanged.                                                          *)
(***************************************************************************)
VARIABLES cache,          \* the cache of the wrapper, by name
          skipped         \* ghost: the last call of the wrapper

propVars == <<pv, items, log, res, old>>

memoVars == <<cache, skipped>>

idleVars == <<haveWX, idleRegistered, idleQueue, idleQueueSet, time, thread, handled>>

threadVars == <<q, enqueued, stop, pc, cur, tasks, started, cancelled, seen, stopAt>>

asyncVars == <<idleVars, threadVars, memoVars>>

vars == <<propVars, asyncVars>>

(***************************************************************************)
(* fsl/utils/async.py, the idle loop.  A Python function is a record of    *)
(* what it is (kind) and of what a call of it does (beh); a call that      *)
(* raises leaves the kind of the function as the exception in flight.      *)
(***************************************************************************)
MaxTime == 2

MaxQueue == 2

NoName == "None"

TaskNames == {"a", "b"}

Behaviours == {"returns", "raises"}

Function(kind, beh) == [kind |-> kind, beh |-> beh]

NoFunc == Function("None", "None")

Functions(kind) == {Function(kind, b) : b \in Behaviours}

IdleTask(name, task, schedtime, after, timeout, args) ==
    [name |-> name, task |-> task, schedtime |-> schedtime,
     after |-> after, timeout |-> timeout, args |-> args]

(* The module's state as one call sees it, with the calls it makes. *)
IdleWorld ==
    [idleRegistered |-> idleRegistered, idleQueue |-> idleQueue,
     idleQueueSet |-> idleQueueSet, calls |-> <<>>, exc |-> "none"]

(* A call of func with args is recorded, and raises if the function does. *)
Call(I, func, args, how) ==
    [I EXCEPT !.calls = Append(@, [args |-> args, func |-> func, how |-> how]),
              !.exc = IF how = "called" /\ func.beh = "raises"
                      THEN func.kind ELSE "none"]

async_idle(I, task, args, name, after, timeout) ==
    IF haveWX
    THEN [Call(I, task, args, "scheduled") EXCEPT
              !.idleRegistered = TRUE,
              !.idleQueue = Append(@, IdleTask(name, task, time, after, timeout, args)),
              !.idleQueueSet = IF name # NoName THEN @ \cup {name} ELSE @]
    ELSE Call(I, task, args, "called")

run_callback(I, cb, args) ==
    IF cb = NoFunc THEN I ELSE async_idle(I, cb, args, NoName, 0, 0)

run_wrapper(I, task, onFinish, onError) ==
    LET T == Call(I, task, "none", "called")
        F == run_callback(T, onFinish, "none")
    IN  IF T.exc # "none" THEN run_callback([T EXCEPT !.exc = "none"], onError, T.exc)
        ELSE IF F.exc # "none" THEN run_callback([F EXCEPT !.exc = "none"], onError, F.exc)
        ELSE F

Thread(task, onFinish, onError, alive) ==
    [task |-> task, onFinish |-> onFinish, onError |-> onError, alive |-> alive]

NoThread == Thread(NoFunc, NoFunc, NoFunc, FALSE)

(* Ghost: what the last call of run was given, and what came of it. *)
Handled(t, calls, exc, done) ==
    [task |-> t.task, calls |-> calls, exc |-> exc,
     onFinish |-> t.onFinish, onError |-> t.onError, done |-> done]

NoRun == Handled(NoThread, <<>>, "none", FALSE)

inIdle(taskName) == taskName \in idleQueueSet

IdleUnused ==
    /\ haveWX = FALSE /\ idleRegistered = FALSE /\ idleQueue = <<>>
    /\ idleQueueSet = {} /\ time = 0 /\ thread = NoThread /\ handled = NoRun

(***************************************************************************)
(* fsl/utils/async.py, the TaskThread.  A Task object is its index in      *)
(* tasks; the queue holds Task objects, the dictionary maps a name to the  *)
(* Task last enqueued under it (0: no entry).  Both attributes are None    *)
(* once run has returned.                                                  *)
(***************************************************************************)
MaxTasks == 2

Task(name, func) == [name |-> name, func |-> func, enabled |-> TRUE]

Queue(v) == [v |-> v, none |-> FALSE]

NoQueue == [v |-> <<>>, none |-> TRUE]

Dict(d) == [none |-> FALSE, d |-> d]

NoDict == [none |-> TRUE, d |-> [n \in TaskNames |-> 0]]

TaskThread_init ==
    /\ q = Queue(<<>>)
    /\ enqueued = Dict([n \in TaskNames |-> 0])
    /\ stop = FALSE
    /\ pc = "new" /\ cur = 0 /\ tasks = <<>>
    /\ started = {} /\ cancelled = {} /\ seen = FALSE /\ stopAt = "none"

TaskThread_isQueued(name) ==
    IF enqueued.none THEN "TypeError"
    ELSE IF enqueued.d[name] # 0 THEN "True" ELSE "False"

ThreadUnused == TaskThread_init

(***************************************************************************)
(* fsl/utils/memoize.py, skipUnchanged.  A value is None, an int or a      *)
(* numpy array of ints; the cache maps a name to the value last set, or    *)
(* to Absent.                                                              *)
(***************************************************************************)
Names == {"x", "y"}

Absent == [n |-> <<>>, k |-> "absent"]

PyNone == [n |-> <<>>, k |-> "None"]

PyInt(i) == [n |-> <<i>>, k |-> "int"]

ndarray(a) == [n |-> a, k |-> "ndarray"]

SetterValues == {PyNone} \cup {PyInt(i) : i \in 0..1} \cup {ndarray(<<i, j>>) : i, j \in 0..1}

(* cache.get(name, None) *)
cache_get(name) == IF cache[name] = Absent THEN PyNone ELSE cache[name]

(* oldVal == value, with a scalar broadcast over an array, under np.all. *)
nochange(oldVal, value) ==
    IF oldVal.k = "ndarray" \/ value.k = "ndarray"
    THEN /\ value.k # "None"
         /\ \A i \in 1..Len(oldVal.n), j \in 1..Len(value.n) :
                (Len(oldVal.n) = 1 \/ Len(value.n) = 1 \/ i = j) => oldVal.n[i] = value.n[j]
    ELSE oldVal = value

(* Whether wrapper(name, value) returns before it calls func. *)
skipUnchanged_skips(name, value) ==
    LET oldVal == cache_get(name)
    IN  oldVal # PyNone /\ nochange(oldVal, value)

MemoInit ==
    /\ cache = [name \in Names |-> Absent]
    /\ skipped = [name |-> "", value |-> PyNone, op |-> "none", cached |-> Absent,
                  called |-> FALSE, ret |-> "None"]

MemoUnused == MemoInit

AsyncUnused == IdleUnused /\ ThreadUnused /\ MemoUnused

(***************************************************************************)
(* Python values.  k is the type, n the number (of an int, or spelled by   *)
(* a str), w the number of one-element lists wrapped around the value.     *)
(* A list of values is a record whose n is the sequence of its elements.   *)
(* Every record of the module is written with its fields in the order in   *)
(* which TLC keeps them (the order in which the names first occur in the   *)
(* module), so that no worker of TLC ever reorders a record that another   *)
(* worker reads.                                                           *)
(***************************************************************************)
MaxVal == 1

IntV(n) == [n |-> n, k |-> "int", w |-> 0]

StrV(n) == [n |-> n, k |-> "str", w |-> 0]

Word == [n |-> 0, k |-> "word", w |-> 0]

None == [n |-> 0, k |-> "none", w |-> 0]

ListOf(s) == [n |-> s, k |-> "list", w |-> 0]

\* None where a list is expected
NoneList == [n |-> <<>>, k |-> "none", w |-> 0]

Wrap(v) == [v EXCEPT !.w = @ + 1]

Ints == {IntV(-1)} \cup {IntV(n) : n \in 1..MaxVal}

Inputs == Ints \cup {StrV(-1), Word, None}

(***************************************************************************)
(* The outcome of a call that returns a value or raises.                   *)
(***************************************************************************)
Return(v) == [exc |-> "none", v |-> v]

Raise(e) == [exc |-> e, v |-> None]

(***************************************************************************)
(* The callbacks a client passes in.  toInt is Python's int(); it raises   *)
(* on a value it cannot convert.  requirePositive raises ValueError on     *)
(* anything but a positive int.  maxLength raises ValueError on a list     *)
(* of MaxLen values or more.                                               *)
(***************************************************************************)
MaxLen == 2

toInt(v) ==
    IF v.w > 0 \/ v.k \in {"none", "list"} THEN Raise("TypeError")
    ELSE IF v.k = "word" THEN Raise("ValueError")
    ELSE Return(IntV(v.n))

requirePositive(v) ==
    IF v.k = "int" /\ v.w = 0 /\ v.n > 0 THEN "none" ELSE "ValueError"

maxLength(v) ==
    IF v.k # "list" THEN "TypeError"
    ELSE IF Len(v.n) >= MaxLen THEN "ValueError" ELSE "none"

\* raises ValueError on a list of fewer than MaxLen - 1 values
minLength(v) ==
    IF v.k # "list" THEN "TypeError"
    ELSE IF Len(v.n) < MaxLen - 1 THEN "ValueError" ELSE "none"

ListValidate(f, v) ==
    IF f = "maxLength" THEN maxLength(v)
    ELSE IF f = "minLength" THEN minLength(v) ELSE "none"

ItemCast(f, v) == IF f = "toInt" THEN toInt(v) ELSE Return(v)

ItemValidate(f, v) == IF f = "requirePositive" THEN requirePositive(v) ELSE "none"

ListenerNames == {"a", "b"}

AddedName == "b"

RemovedName == "b"

Callbacks == {"plain", "raiser", "adder", "remover"}

\* The callbacks a client registers under a name: the listener that adders
\* add and removers remove does not itself add or remove listeners.
CallbacksFor(name) ==
    IF name \in {AddedName, RemovedName} THEN {"plain", "raiser"} ELSE Callbacks

HookPairs ==
    {<<"None", "None">>, <<"plain", "plain">>, <<"raiser", "plain">>, <<"plain", "raiser">>}

(***************************************************************************)
(* PropertyValue objects.  changeListeners is the OrderedDict of the       *)
(* source: a sequence of (key, callback) pairs with distinct keys, in      *)
(* insertion order.  origin is not an attribute: it identifies the object  *)
(* during one operation (the index a child had when the operation was      *)
(* called, 0 for an object created by the operation).                      *)
(***************************************************************************)
PropertyValue_init(name, value, castFunc, validateFunc, preNotifyFunc, postNotifyFunc, allowInvalid) ==
    LET c == ItemCast(castFunc, value)
    IN  [exc |-> c.exc,
         o   |-> [name            |-> name,
                  value           |-> c.v,
                  castFunc        |-> castFunc,
                  preNotifyFunc   |-> preNotifyFunc,
                  postNotifyFunc  |-> postNotifyFunc,
                  allowInvalid    |-> allowInvalid,
                  validate        |-> validateFunc,
                  changeListeners |-> <<>>,
                  valid           |-> FALSE,
                  lastValue       |-> None,
                  lastValid       |-> FALSE,
                  itemCastFunc     |-> "None",
                  itemValidateFunc |-> "None",
                  listValidateFunc |-> "None",
                  origin           |-> 0]]

ListenerKey(o, name) == <<"PropertyValue", o.name, name>>

KeyIndex(listeners, key) ==
    LET hits == {i \in 1..Len(listeners) : listeners[i].name = key}
    IN  IF hits = {} THEN 0 ELSE CHOOSE i \in hits : TRUE

\* a second registration under a name kept beside the first
PropertyValue_addListener_appends(o, name, callback) ==
    [o EXCEPT !.changeListeners =
        Append(@, [name |-> ListenerKey(o, name), cb |-> callback])]

PropertyValue_addListener(o, name, callback) ==
    LET key == ListenerKey(o, name)
        at  == KeyIndex(o.changeListeners, key)
        new == [name |-> key, cb |-> callback]
    IN  [o EXCEPT !.changeListeners =
            IF at = 0 THEN Append(@, new) ELSE [@ EXCEPT ![at] = new]]

PropertyValue_removeListener(o, name) ==
    LET key == ListenerKey(o, name)
    IN  [o EXCEPT !.changeListeners = SelectSeq(@, LAMBDA l : l.name # key)]

PropertyValue_get(o) == o.value

(***************************************************************************)
(* The closures PropertyValueList.__init__ passes to PropertyValue as its  *)
(* cast and validate functions.                                            *)
(***************************************************************************)
FirstRaise(excs) ==
    LET bad == {i \in 1..Len(excs) : excs[i] # "none"}
    IN  IF bad = {} THEN "none"
        ELSE excs[CHOOSE i \in bad : \A j \in bad : i <= j]

castFunc(o, values) ==
    IF o.itemCastFunc # "None" /\ values.k # "none"
    THEN LET cs == [i \in 1..Len(values.n) |-> ItemCast(o.itemCastFunc, values.n[i])]
             e  == FirstRaise([i \in 1..Len(cs) |-> cs[i].exc])
         IN  IF e # "none" THEN Raise(e)
             ELSE Return(ListOf([i \in 1..Len(cs) |-> cs[i].v]))
    ELSE Return(values)

validateFunc_listOnly(o, newValues) == ListValidate(o.listValidateFunc, newValues)

validateFunc(o, newValues) ==
    LET l == ListValidate(o.listValidateFunc, newValues)
        e == IF o.itemValidateFunc = "None" THEN "none"
             ELSE IF newValues.k = "none" THEN "TypeError"
             ELSE FirstRaise([i \in 1..Len(newValues.n) |->
                                ItemValidate(o.itemValidateFunc, newValues.n[i])])
    IN  IF l # "none" THEN l ELSE e

ApplyCast(o, v) ==
    IF o.castFunc = "castFunc" THEN castFunc(o, v) ELSE ItemCast(o.castFunc, v)

ApplyValidate(o, v) ==
    IF o.validate = "validateFunc" THEN validateFunc(o, v)
    ELSE ItemValidate(o.validate, v)

(***************************************************************************)
(* Worlds.  Object 0 is pv; object i > 0 is the child items[i].            *)
(***************************************************************************)
Obj(W, t) == IF t = 0 THEN W.pv ELSE W.items[t]

PutObj(W, t, o) ==
    IF t = 0 THEN [W EXCEPT !.pv = o] ELSE [W EXCEPT !.items[t] = o]

RawLen(W) == IF W.pv.value.k = "list" THEN Len(W.pv.value.n) ELSE 0

Called(W, t, l, value, valid) ==
    [cb     |-> l.cb,
     value  |-> value,
     valid  |-> valid,
     obj    |-> t,
     who    |-> l.name,
     nItems |-> Len(W.items),
     nRaw   |-> RawLen(W)]

RECURSIVE PropertyValue_set(_, _, _)
RECURSIVE PropertyValue_notify(_, _)
RECURSIVE CallListeners(_, _, _, _, _, _)
RECURSIVE CallListener(_, _, _, _, _)
RECURSIVE PropertyValueList_set(_, _, _)
RECURSIVE PropertyValueList_revalidate(_)

(***************************************************************************)
(* One callback, called as listener(value, valid, context).  The call is   *)
(* recorded, then the callback does what its kind says; a raiser leaves    *)
(* an exception in flight.                                                 *)
(***************************************************************************)
Hook(name, f) == IF f = "None" THEN <<>> ELSE <<[name |-> <<name>>, cb |-> f]>>

\* The value a "setter" listener sets on the object that called it.
SetterValue == IntV(1)

CallListener(W, t, l, value, valid) ==
    LET W1 == [W EXCEPT !.log = Append(@, Called(W, t, l, value, valid))]
    IN  CASE l.cb = "raiser"  -> [W1 EXCEPT !.exc = "Exception"]
          [] l.cb = "setter"  -> PropertyValue_set(W1, t, SetterValue)
          [] l.cb = "adder"   ->
                PutObj(W1, t, PropertyValue_addListener(Obj(W1, t), AddedName, "plain"))
          [] l.cb = "remover" ->
                PutObj(W1, t, PropertyValue_removeListener(Obj(W1, t), RemovedName))
          [] l.cb = "revalidate" -> PropertyValueList_revalidate(W1)
          [] OTHER -> W1

(***************************************************************************)
(* The loop of _notify: an exception raised by a callback is logged and    *)
(* the loop goes on.                                                       *)
(***************************************************************************)
RECURSIVE CallListeners_stopOnRaise(_, _, _, _, _, _)
CallListeners_stopOnRaise(W, t, allListeners, k, value, valid) ==
    IF k > Len(allListeners) THEN W
    ELSE LET W1 == CallListener(W, t, allListeners[k], value, valid)
         IN  IF W1.exc # "none" THEN W1
             ELSE CallListeners_stopOnRaise(W1, t, allListeners, k + 1, value, valid)

AllListeners(o) ==
    Hook("PreNotify", o.preNotifyFunc) \o o.changeListeners
        \o Hook("PostNotify", o.postNotifyFunc)

RECURSIVE CallListeners_live(_, _, _, _, _, _)
CallListeners_live(W, t, allListeners, k, value, valid) ==
    LET now == AllListeners(Obj(W, t))
    IN  IF k > Len(now) THEN W
        ELSE LET W1 == CallListener(W, t, now[k], value, valid)
             IN  CallListeners_live([W1 EXCEPT !.exc = "none"], t, now, k + 1,
                                    value, valid)

CallListeners(W, t, allListeners, k, value, valid) ==
    IF k > Len(allListeners) THEN W
    ELSE LET W1 == CallListener(W, t, allListeners[k], value, valid)
         IN  CallListeners([W1 EXCEPT !.exc = "none"], t, allListeners, k + 1,
                           value, valid)

PropertyValue_notify_postFirst(W, t) ==
    LET o == Obj(W, t)
    IN  CallListeners(W, t,
                      Hook("PreNotify", o.preNotifyFunc)
                          \o Hook("PostNotify", o.postNotifyFunc)
                          \o o.changeListeners,
                      1, o.value, o.valid)

PropertyValue_notify(W, t) ==
    LET o == Obj(W, t)
    IN  CallListeners(W, t, AllListeners(o), 1, o.value, o.valid)

\* no short cut on an unchanged pair
Changed_always(o) == TRUE

Changed_never(o) == FALSE

Changed(o) == (o.value # o.lastValue) \/ (o.valid # o.lastValid)

PropertyValue_set_allowsInvalid(W, t, newValue) ==
    LET o  == Obj(W, t)
        c  == ApplyCast(o, newValue)
        e  == ApplyValidate(o, c.v)
        o1 == [o EXCEPT !.value = c.v, !.valid = (e = "none")]
        o2 == [o1 EXCEPT !.lastValue = o1.value, !.lastValid = o1.valid]
    IN  IF c.exc # "none" THEN [W EXCEPT !.exc = c.exc]
        ELSE IF e # "none" /\ e # "ValueError" THEN [W EXCEPT !.exc = e]
        ELSE IF ~Changed(o1) THEN PutObj(W, t, o1)
        ELSE PropertyValue_notify(PutObj(W, t, o2), t)

PropertyValue_set_storesFirst(W, t, newValue) ==
    LET o  == Obj(W, t)
        c  == ApplyCast(o, newValue)
        e  == ApplyValidate(o, c.v)
        o1 == [o EXCEPT !.value = c.v, !.valid = (e = "none")]
        o2 == [o1 EXCEPT !.lastValue = o1.value, !.lastValid = o1.valid]
    IN  IF c.exc # "none" THEN [W EXCEPT !.exc = c.exc]
        ELSE IF e # "none" /\ (e # "ValueError" \/ ~o.allowInvalid)
        THEN [PutObj(W, t, o1) EXCEPT !.exc = e]
        ELSE IF ~Changed(o1) THEN PutObj(W, t, o1)
        ELSE PropertyValue_notify(PutObj(W, t, o2), t)

PropertyValue_set_alwaysNotifies(W, t, newValue) ==
    LET o  == Obj(W, t)
        c  == ApplyCast(o, newValue)
        e  == ApplyValidate(o, c.v)
        o1 == [o EXCEPT !.value = c.v, !.valid = (e = "none")]
        o2 == [o1 EXCEPT !.lastValue = o1.value, !.lastValid = o1.valid]
    IN  IF c.exc # "none" THEN [W EXCEPT !.exc = c.exc]
        ELSE IF e # "none" /\ (e # "ValueError" \/ ~o.allowInvalid)
        THEN [W EXCEPT !.exc = e]
        ELSE PropertyValue_notify(PutObj(W, t, o2), t)

PropertyValue_set_rejectsInvalid(W, t, newValue) ==
    LET o  == Obj(W, t)
        c  == ApplyCast(o, newValue)
        e  == ApplyValidate(o, c.v)
        o1 == [o EXCEPT !.value = c.v, !.valid = (e = "none")]
        o2 == [o1 EXCEPT !.lastValue = o1.value, !.lastValid = o1.valid]
    IN  IF c.exc # "none" THEN [W EXCEPT !.exc = c.exc]
        ELSE IF e # "none" THEN [W EXCEPT !.exc = e]
        ELSE IF ~Changed(o1) THEN PutObj(W, t, o1)
        ELSE PropertyValue_notify(PutObj(W, t, o2), t)

PropertyValue_set_castInTry(W, t, newValue) ==
    LET o  == Obj(W, t)
        c  == ApplyCast(o, newValue)
        e  == IF c.exc # "none" THEN c.exc ELSE ApplyValidate(o, c.v)
        o1 == [o EXCEPT !.value = IF c.exc # "none" THEN newValue ELSE c.v,
                        !.valid = (e = "none")]
        o2 == [o1 EXCEPT !.lastValue = o1.value, !.lastValid = o1.valid]
    IN  IF e # "none" /\ (e # "ValueError" \/ ~o.allowInvalid)
        THEN [W EXCEPT !.exc = e]
        ELSE IF ~Changed(o1) THEN PutObj(W, t, o1)
        ELSE PropertyValue_notify(PutObj(W, t, o2), t)

\* the last notified value not recorded
PropertyValue_set_lastValueStale(W, t, newValue) ==
    LET o  == Obj(W, t)
        c  == ApplyCast(o, newValue)
        e  == ApplyValidate(o, c.v)
        o1 == [o EXCEPT !.value = c.v, !.valid = (e = "none")]
        o2 == [o1 EXCEPT !.lastValid = o1.valid]
    IN  IF c.exc # "none" THEN [W EXCEPT !.exc = c.exc]
        ELSE IF e # "none" /\ (e # "ValueError" \/ ~o.allowInvalid)
        THEN [W EXCEPT !.exc = e]
        ELSE IF ~Changed(o1) THEN PutObj(W, t, o1)
        ELSE PropertyValue_notify(PutObj(W, t, o2), t)

PropertyValue_set(W, t, newValue) ==
    LET o  == Obj(W, t)
        c  == ApplyCast(o, newValue)
        e  == ApplyValidate(o, c.v)
        o1 == [o EXCEPT !.value = c.v, !.valid = (e = "none")]
        o2 == [o1 EXCEPT !.lastValue = o1.value, !.lastValid = o1.valid]
    IN  IF c.exc # "none" THEN [W EXCEPT !.exc = c.exc]
        ELSE IF e # "none" /\ (e # "ValueError" \/ ~o.allowInvalid)
        THEN [W EXCEPT !.exc = e]
        ELSE IF ~Changed(o1) THEN PutObj(W, t, o1)
        ELSE PropertyValue_notify(PutObj(W, t, o2), t)

PropertyValue_revalidate(W, t) == PropertyValue_set(W, t, PropertyValue_get(Obj(W, t)))

PropertyValue_isValid(o) ==
    o.validate # "None" /\ ApplyValidate(o, PropertyValue_get(o)) = "none"

(***************************************************************************)
(* Python's list operations on a sequence.  A Python index i on a list of  *)
(* n elements is position Position(i, n) of the sequence, 0 when the index *)
(* is out of range.  A slice key [a:b] has 0 <= a, 0 <= b and step 1.      *)
(***************************************************************************)
Position(i, n) ==
    IF 0 <= i /\ i < n THEN i + 1
    ELSE IF i < 0 /\ -i <= n THEN n + i + 1
    ELSE 0

Min(a, b) == IF a <= b THEN a ELSE b

Max(a, b) == IF a >= b THEN a ELSE b

IntKey(i) == [kind |-> "int", b |-> 0, a |-> i]

SliceKey(a, b) == [kind |-> "slice", b |-> b, a |-> a]

OtherKey == [kind |-> "other", b |-> 0, a |-> 0]

\* range(*key.indices(n)), as positions of the sequence
SliceRange(key, n) ==
    LET lo == Min(key.a, n)
        hi == Min(key.b, n)
    IN  [i \in 1..Max(hi - lo, 0) |-> lo + i]

Remove(s, p) == [i \in 1..(Len(s) - 1) |-> IF i < p THEN s[i] ELSE s[i + 1]]

InsertAt(s, p, x) ==
    [i \in 1..(Len(s) + 1) |-> IF i < p THEN s[i] ELSE IF i = p THEN x ELSE s[i - 1]]

\* an index out of range taken for the last position
list_pop_clamped(s, index) ==
    LET p == IF Position(index, Len(s)) = 0 THEN Len(s) ELSE Position(index, Len(s))
    IN  IF p = 0 THEN [exc |-> "IndexError", v |-> None, s |-> s]
        ELSE [exc |-> "none", v |-> s[p], s |-> Remove(s, p)]

list_pop(s, index) ==
    LET p == Position(index, Len(s))
    IN  IF p = 0 THEN [exc |-> "IndexError", v |-> None, s |-> s]
        ELSE [exc |-> "none", v |-> s[p], s |-> Remove(s, p)]

list_insert(s, index, x) ==
    LET n == Len(s)
        p == IF index >= n THEN n + 1
             ELSE IF index >= 0 THEN index + 1
             ELSE Max(n + index, 0) + 1
    IN  InsertAt(s, p, x)

list_delitem(s, key) ==
    IF key.kind = "int"
    THEN LET r == list_pop(s, key.a) IN [exc |-> r.exc, s |-> r.s]
    ELSE IF key.kind = "slice"
    THEN LET gone == {SliceRange(key, Len(s))[i] : i \in 1..Len(SliceRange(key, Len(s)))}
             kept == SelectSeq([i \in 1..Len(s) |-> <<i, s[i]>>],
                               LAMBDA e : e[1] \notin gone)
         IN  [exc |-> "none", s |-> [i \in 1..Len(kept) |-> kept[i][2]]]
    ELSE [exc |-> "TypeError", s |-> s]

\* listVals[key] = values, where len(values) is the number of indices of a slice
list_setitem(s, key, values) ==
    IF key.kind = "int"
    THEN LET p == Position(key.a, Len(s))
         IN  IF p = 0 THEN [exc |-> "IndexError", s |-> s]
             ELSE [exc |-> "none", s |-> [s EXCEPT ![p] = values]]
    ELSE LET r == SliceRange(key, Len(s))
             lo == Min(key.a, Len(s))
         IN  [exc |-> "none",
              s   |-> [i \in 1..Len(s) |->
                         IF i > lo /\ i <= lo + Len(r) THEN values[i - lo] ELSE s[i]]]

(***************************************************************************)
(* PropertyValueList.  pv.value is the list of raw values (None when the   *)
(* list was constructed without values); items is __propVals.              *)
(***************************************************************************)
PropertyValueList_newItem(list, item) ==
    PropertyValue_init("PropertyValueList_Item", item, list.itemCastFunc,
                       list.itemValidateFunc, "None", "revalidate",
                       list.allowInvalid)

\* map(self.__newItem, values): the new items, or the first exception
NewItems(list, values) ==
    LET ns == [i \in 1..Len(values) |-> PropertyValueList_newItem(list, values[i])]
    IN  [exc |-> FirstRaise([i \in 1..Len(ns) |-> ns[i].exc]),
         s   |-> [i \in 1..Len(ns) |-> ns[i].o]]

\* if recreate: self.__propVals = map(self.__newItem, newValues), in the
\* world W the call PropertyValue.set(self, newValues) has left
\* the items left as they are whatever recreate says
Recreate_never(W, newValues, recreate) == W

Recreate(W, newValues, recreate) ==
    LET ns == NewItems(W.pv, newValues.n)
    IN  IF W.exc # "none" \/ ~recreate THEN W
        ELSE IF newValues.k # "list" THEN [W EXCEPT !.exc = "TypeError"]
        ELSE IF ns.exc # "none" THEN [W EXCEPT !.exc = ns.exc]
        ELSE [W EXCEPT !.items = ns.s]

PropertyValueList_set(W, newValues, recreate) ==
    Recreate(PropertyValue_set(W, 0, newValues), newValues, recreate)

PropertyValueList_revalidate_recreates(W) == PropertyValueList_set(W, PropertyValue_get(W.pv), TRUE)

PropertyValueList_revalidate(W) == PropertyValueList_set(W, PropertyValue_get(W.pv), FALSE)

PropertyValueList_init(values, itemCastFunc, itemValidateFunc, listValidateFunc, allowInvalid, preNotifyFunc, postNotifyFunc) ==
    LET o == PropertyValue_init("PropertyValueList", None, "castFunc", "validateFunc",
                                preNotifyFunc, postNotifyFunc, allowInvalid).o
        W == [pv    |-> [o EXCEPT !.value = NoneList, !.lastValue = NoneList,
                                  !.itemCastFunc = itemCastFunc,
                                  !.itemValidateFunc = itemValidateFunc,
                                  !.listValidateFunc = listValidateFunc],
              items |-> <<>>,
              log   |-> <<>>,
              exc   |-> "none",
              ret   |-> None]
    IN  IF values = NoneList THEN W ELSE PropertyValueList_set(W, values, TRUE)

\* self[:]: a copy of the raw values; None has no __getitem__
GetSlice(W) ==
    IF W.pv.value.k = "list" THEN [exc |-> "none", s |-> W.pv.value.n]
    ELSE [exc |-> "AttributeError", s |-> <<>>]

\* len(self): self[:].__len__()
PropertyValueList_len(W) ==
    LET listVals == GetSlice(W)
    IN  [exc |-> listVals.exc, v |-> Len(listVals.s)]

(***************************************************************************)
(* The operations that edit the list.  Each one edits a copy of the raw    *)
(* values, calls set(listVals, False) and then edits __propVals: the       *)
(* operator named ..._propVals is that last part, applied to the world W   *)
(* that set has left.                                                      *)
(***************************************************************************)
append_propVals(W, item) ==
    LET propVal == PropertyValueList_newItem(W.pv, item)
    IN  IF W.exc # "none" THEN W
        ELSE IF propVal.exc # "none" THEN [W EXCEPT !.exc = propVal.exc]
        ELSE [W EXCEPT !.items = Append(@, propVal.o)]

PropertyValueList_append(W, item) ==
    LET listVals == GetSlice(W)
    IN  IF listVals.exc # "none" THEN [W EXCEPT !.exc = listVals.exc]
        ELSE append_propVals(
                 PropertyValueList_set(W, ListOf(Append(listVals.s, item)), FALSE),
                 item)

\* once: the iterable can be traversed only once (an iterator, a generator),
\* so the second loop over it finds it exhausted
extend_propVals(W, iterable, once) ==
    LET propVals == NewItems(W.pv, IF once THEN <<>> ELSE iterable)
    IN  IF W.exc # "none" THEN W
        ELSE IF propVals.exc # "none" THEN [W EXCEPT !.exc = propVals.exc]
        ELSE [W EXCEPT !.items = @ \o propVals.s]

PropertyValueList_extend(W, iterable, once) ==
    LET listVals == GetSlice(W)
    IN  IF listVals.exc # "none" THEN [W EXCEPT !.exc = listVals.exc]
        ELSE extend_propVals(
                 PropertyValueList_set(W, ListOf(listVals.s \o iterable), FALSE),
                 iterable, once)

pop_propVals(W, index) ==
    LET propVal == list_pop(W.items, index)
    IN  IF W.exc # "none" THEN W
        ELSE IF propVal.exc # "none" THEN [W EXCEPT !.exc = propVal.exc]
        ELSE [W EXCEPT !.items = propVal.s, !.ret = PropertyValue_get(propVal.v)]

PropertyValueList_pop(W, index) ==
    LET listVals == GetSlice(W)
        popped == list_pop(listVals.s, index)
    IN  IF listVals.exc # "none" THEN [W EXCEPT !.exc = listVals.exc]
        ELSE IF popped.exc # "none" THEN [W EXCEPT !.exc = popped.exc]
        ELSE pop_propVals(PropertyValueList_set(W, ListOf(popped.s), FALSE), index)

move_propVals(W, from, to) ==
    LET pval == list_pop(W.items, from)
    IN  IF W.exc # "none" THEN W
        ELSE IF pval.exc # "none" THEN [W EXCEPT !.exc = pval.exc]
        ELSE [W EXCEPT !.items = list_insert(pval.s, to, pval.v)]

PropertyValueList_move(W, from, to) ==
    LET listVals == GetSlice(W)
        val == list_pop(listVals.s, from)
    IN  IF listVals.exc # "none" THEN [W EXCEPT !.exc = listVals.exc]
        ELSE IF val.exc # "none" THEN [W EXCEPT !.exc = val.exc]
        ELSE move_propVals(
                 PropertyValueList_set(W, ListOf(list_insert(val.s, to, val.v)), FALSE),
                 from, to)

\* for idx, val in zip(indices, values): self.__propVals[idx].set(val)
RECURSIVE SetItems(_, _, _, _)
SetItems(W, indices, values, k) ==
    IF W.exc # "none" \/ k > Len(indices) \/ k > Len(values) THEN W
    ELSE LET p == Position(indices[k], Len(W.items))
         IN  IF p = 0 THEN [W EXCEPT !.exc = "IndexError"]
             ELSE SetItems(PropertyValue_set(W, p, values[k]), indices, values, k + 1)

\* values: the value assigned under an int key, the list of the values
\* assigned under a slice key
PropertyValueList_setitem(W, key, values) ==
    LET n == GetSlice(W)
        range == SliceRange(key, Len(n.s))
        indices == IF key.kind = "slice" THEN [i \in 1..Len(range) |-> range[i] - 1]
                   ELSE <<key.a>>
        vals == IF key.kind = "slice" THEN values.n ELSE <<values>>
        listVals == list_setitem(n.s, key, IF key.kind = "slice" THEN values.n
                                           ELSE Wrap(values))
    IN  IF key.kind = "slice" /\ n.exc # "none" THEN [W EXCEPT !.exc = n.exc]
        ELSE IF key.kind = "slice" /\ Len(range) # Len(values.n)
        THEN [W EXCEPT !.exc = "ValueError"]
        ELSE IF key.kind \notin {"slice", "int"} THEN [W EXCEPT !.exc = "ValueError"]
        ELSE IF n.exc # "none" THEN [W EXCEPT !.exc = n.exc]
        ELSE IF listVals.exc # "none" THEN [W EXCEPT !.exc = listVals.exc]
        ELSE SetItems(PropertyValueList_set(W, ListOf(listVals.s), FALSE),
                      indices, vals, 1)

\* The class defines no insert method: list.insert(index, item) fails on the
\* attribute lookup.
PropertyValueList_insert(W, index, item) == [W EXCEPT !.exc = "AttributeError"]

delitem_propVals(W, key) ==
    LET propVals == list_delitem(W.items, key)
    IN  IF W.exc # "none" THEN W
        ELSE IF propVals.exc # "none" THEN [W EXCEPT !.exc = propVals.exc]
        ELSE [W EXCEPT !.items = propVals.s]

PropertyValueList_delitem(W, key) ==
    LET n == GetSlice(W)
        listVals == list_delitem(n.s, key)
    IN  IF n.exc # "none" THEN [W EXCEPT !.exc = n.exc]
        ELSE IF listVals.exc # "none" THEN [W EXCEPT !.exc = listVals.exc]
        ELSE delitem_propVals(PropertyValueList_set(W, ListOf(listVals.s), FALSE), key)

(***************************************************************************)
(* The client's calls on a PropertyValue.  An action binds W, the world    *)
(* its call leaves, and takes the next state from it.                      *)
(***************************************************************************)
NoRes ==
    [name |-> "", exc |-> "none", cb |-> "", v |-> None, op |-> "init",
     ret |-> None, key |-> OtherKey, to |-> 0, ok |-> FALSE, flag |-> FALSE,
     again |-> FALSE, before |-> 0]

Start == [pv |-> pv, items |-> items, log |-> <<>>, exc |-> "none", ret |-> None]

ListenerCalls(l) == Len(SelectSeq(l, LAMBDA c : Len(c.who) = 3))

\* again: this call is a set that returned, made right after a set of the same
\* argument that returned; before: the listener calls that earlier set made.
Result(W, r) ==
    LET again == /\ r.op = "set" /\ res.op = "set" /\ r.v = res.v
                 /\ W.exc = "none" /\ res.exc = "none"
    IN  [r EXCEPT !.exc = W.exc, !.again = again,
                  !.before = IF again THEN ListenerCalls(log) ELSE 0]

Snapshot == [pv |-> pv, items |-> items]

Constructed ==
    {c.o : c \in {x \in {PropertyValue_init("pv", v, cf, vf, h[1], h[2], ai) :
                            v \in Inputs, cf \in {"None", "toInt"},
                            vf \in {"None", "requirePositive"},
                            h \in HookPairs, ai \in BOOLEAN} :
                     x.exc = "none"}}

Init ==
    /\ pv \in Constructed
    /\ items = <<>>
    /\ log = <<>>
    /\ res = NoRes
    /\ old = Snapshot
    /\ AsyncUnused

Set(v) ==
    /\ \E W \in {PropertyValue_set(Start, 0, v)} :
           /\ pv' = W.pv /\ items' = W.items /\ log' = W.log
           /\ res' = Result(W, [NoRes EXCEPT !.op = "set", !.v = v])
           /\ old' = Snapshot
    /\ UNCHANGED asyncVars

Revalidate ==
    /\ \E W \in {PropertyValue_revalidate(Start, 0)} :
           /\ pv' = W.pv /\ items' = W.items /\ log' = W.log
           /\ res' = Result(W, [NoRes EXCEPT !.op = "revalidate"])
           /\ old' = Snapshot
    /\ UNCHANGED asyncVars

IsValid ==
    /\ res' = Result(Start, [NoRes EXCEPT !.op = "isValid",
                                          !.ok = PropertyValue_isValid(pv)])
    /\ log' = <<>>
    /\ old' = Snapshot
    /\ UNCHANGED <<pv, items>>
    /\ UNCHANGED asyncVars

AddListener(name, callback) ==
    /\ pv' = PropertyValue_addListener(pv, name, callback)
    /\ res' = Result(Start, [NoRes EXCEPT !.op = "addListener", !.name = name,
                                          !.cb = callback])
    /\ log' = <<>>
    /\ old' = Snapshot
    /\ UNCHANGED items
    /\ UNCHANGED asyncVars

RemoveListener(name) ==
    /\ pv' = PropertyValue_removeListener(pv, name)
    /\ res' = Result(Start, [NoRes EXCEPT !.op = "removeListener", !.name = name])
    /\ log' = <<>>
    /\ old' = Snapshot
    /\ UNCHANGED items
    /\ UNCHANGED asyncVars

Next ==
    \/ \E v \in Inputs : Set(v)
    \/ Revalidate
    \/ IsValid
    \/ \E name \in ListenerNames :
          \E callback \in CallbacksFor(name) : AddListener(name, callback)
    \/ \E name \in ListenerNames : RemoveListener(name)

Spec == Init /\ [][Next]_vars

(***************************************************************************)
(* The client's calls on a PropertyValueList.  A call is made when the     *)
(* record of the previous call has been dropped (Forget), so that old, res *)
(* and log describe one call at a time.                                    *)
(***************************************************************************)
ItemInputs == {IntV(1), StrV(-1), Word}

ArgLists ==
    {<<>>} \cup {<<x>> : x \in ItemInputs}
           \cup {<<IntV(1), StrV(-1)>>, <<StrV(-1), IntV(1)>>}

\* (itemCastFunc, itemValidateFunc, listValidateFunc, allowInvalid)
ListConfigs ==
    {<<"toInt", "None", "None", TRUE>>,
     <<"toInt", "requirePositive", "None", TRUE>>,
     <<"toInt", "requirePositive", "None", FALSE>>,
     <<"toInt", "None", "maxLength", TRUE>>,
     <<"toInt", "None", "maxLength", FALSE>>,
     <<"toInt", "None", "minLength", TRUE>>}

Indexes == -1..MaxLen

SliceKeys == {SliceKey(0, MaxLen), SliceKey(1, MaxLen)}

ListConstructed ==
    {W \in {PropertyValueList_init(vs, c[1], c[2], c[3], c[4], "plain", "plain") :
               vs \in {NoneList} \cup {ListOf(a) : a \in ArgLists},
               c \in ListConfigs} :
        W.exc = "none"}

Tagged(s) == [i \in 1..Len(s) |-> [s[i] EXCEPT !.origin = i]]

ListInit ==
    /\ \E W \in ListConstructed :
           /\ pv = W.pv
           /\ items = W.items
           /\ log = W.log
           /\ res = NoRes
           /\ old = [pv |-> W.pv, items |-> W.items]
    /\ AsyncUnused

Idle == [NoRes EXCEPT !.op = "idle"]

Forget ==
    /\ res.op # "idle"
    /\ res' = Idle
    /\ log' = <<>>
    /\ items' = Tagged(items)
    /\ old' = [pv |-> pv, items |-> Tagged(items)]
    /\ UNCHANGED pv
    /\ UNCHANGED asyncVars

ListSet(values) ==
    /\ res.op = "idle"
    /\ \E W \in {PropertyValueList_set(Start, ListOf(values), TRUE)} :
            /\ pv' = W.pv /\ items' = W.items /\ log' = W.log
            /\ res' = Result(W, [NoRes EXCEPT !.op = "set", !.v = ListOf(values),
                                             !.flag = TRUE])
            /\ UNCHANGED old
    /\ UNCHANGED asyncVars

\* set(values, recreate=False)
ListSetNoRecreate(values) ==
    /\ res.op = "idle"
    /\ \E W \in {PropertyValueList_set(Start, ListOf(values), FALSE)} :
            /\ pv' = W.pv /\ items' = W.items /\ log' = W.log
            /\ res' = Result(W, [NoRes EXCEPT !.op = "set", !.v = ListOf(values),
                                             !.flag = FALSE])
            /\ UNCHANGED old
    /\ UNCHANGED asyncVars

ListRevalidate ==
    /\ res.op = "idle"
    /\ \E W \in {PropertyValueList_revalidate(Start)} :
            /\ pv' = W.pv /\ items' = W.items /\ log' = W.log
            /\ res' = Result(W, [NoRes EXCEPT !.op = "revalidate"])
            /\ UNCHANGED old
    /\ UNCHANGED asyncVars

ListAddListener(name, callback) ==
    /\ res.op = "idle"
    /\ pv' = PropertyValue_addListener(pv, name, callback)
    /\ res' = Result(Start, [NoRes EXCEPT !.op = "addListener", !.name = name,
                                          !.cb = callback])
    /\ UNCHANGED <<items, log, old>>
    /\ UNCHANGED asyncVars

ListRemoveListener(name) ==
    /\ res.op = "idle"
    /\ pv' = PropertyValue_removeListener(pv, name)
    /\ res' = Result(Start, [NoRes EXCEPT !.op = "removeListener", !.name = name])
    /\ UNCHANGED <<items, log, old>>
    /\ UNCHANGED asyncVars

Append_(item) ==
    /\ res.op = "idle"
    /\ RawLen(Start) < MaxLen
    /\ \E W \in {PropertyValueList_append(Start, item)} :
            /\ pv' = W.pv /\ items' = W.items /\ log' = W.log
            /\ res' = Result(W, [NoRes EXCEPT !.op = "append", !.v = item])
            /\ UNCHANGED old
    /\ UNCHANGED asyncVars

Extend(iterable, once) ==
    /\ res.op = "idle"
    /\ RawLen(Start) + Len(iterable) <= MaxLen
    /\ \E W \in {PropertyValueList_extend(Start, iterable, once)} :
            /\ pv' = W.pv /\ items' = W.items /\ log' = W.log
            /\ res' = Result(W, [NoRes EXCEPT !.op = "extend", !.v = ListOf(iterable),
                                             !.flag = once])
            /\ UNCHANGED old
    /\ UNCHANGED asyncVars

Pop(index) ==
    /\ res.op = "idle"
    /\ \E W \in {PropertyValueList_pop(Start, index)} :
            /\ pv' = W.pv /\ items' = W.items /\ log' = W.log
            /\ res' = Result(W, [NoRes EXCEPT !.op = "pop", !.key = IntKey(index),
                                             !.ret = W.ret])
            /\ UNCHANGED old
    /\ UNCHANGED asyncVars

Move(from, to) ==
    /\ res.op = "idle"
    /\ \E W \in {PropertyValueList_move(Start, from, to)} :
            /\ pv' = W.pv /\ items' = W.items /\ log' = W.log
            /\ res' = Result(W, [NoRes EXCEPT !.op = "move", !.key = IntKey(from),
                                             !.to = to])
            /\ UNCHANGED old
    /\ UNCHANGED asyncVars

SetItem(key, values) ==
    /\ res.op = "idle"
    /\ \E W \in {PropertyValueList_setitem(Start, key, values)} :
            /\ pv' = W.pv /\ items' = W.items /\ log' = W.log
            /\ res' = Result(W, [NoRes EXCEPT !.op = "setitem", !.key = key,
                                             !.v = values])
            /\ UNCHANGED old
    /\ UNCHANGED asyncVars

DelItem(key) ==
    /\ res.op = "idle"
    /\ \E W \in {PropertyValueList_delitem(Start, key)} :
            /\ pv' = W.pv /\ items' = W.items /\ log' = W.log
            /\ res' = Result(W, [NoRes EXCEPT !.op = "delitem", !.key = key])
            /\ UNCHANGED old
    /\ UNCHANGED asyncVars

Insert(index, item) ==
    /\ res.op = "idle"
    /\ RawLen(Start) < MaxLen
    /\ \E W \in {PropertyValueList_insert(Start, index, item)} :
            /\ pv' = W.pv /\ items' = W.items /\ log' = W.log
            /\ res' = Result(W, [NoRes EXCEPT !.op = "insert", !.key = IntKey(index),
                                             !.v = item])
            /\ UNCHANGED old
    /\ UNCHANGED asyncVars

\* getPropertyValueList()[index - 1].set(v)
ItemSet(index, v) ==
    /\ res.op = "idle"
    /\ \E W \in {PropertyValue_set(Start, index, v)} :
            /\ pv' = W.pv /\ items' = W.items /\ log' = W.log
            /\ res' = Result(W, [NoRes EXCEPT !.op = "item.set", !.to = index, !.v = v])
            /\ UNCHANGED old
    /\ UNCHANGED asyncVars

ListNext ==
    \/ Forget
    \/ \E values \in ArgLists : ListSet(values)
    \/ ListRevalidate
    \/ ListAddListener("a", "plain")
    \/ ListRemoveListener("a")
    \/ \E item \in ItemInputs : Append_(item)
    \/ \E iterable \in ArgLists, once \in BOOLEAN : Extend(iterable, once)
    \/ \E index \in Indexes : Pop(index)
    \/ \E index \in Indexes, item \in ItemInputs : Insert(index, item)
    \/ \E from \in Indexes, to \in 0..(MaxLen - 1) : Move(from, to)
    \/ \E key \in {IntKey(i) : i \in Indexes}, x \in ItemInputs : SetItem(key, x)
    \/ SetItem(OtherKey, IntV(1))
    \/ \E key \in SliceKeys, values \in ArgLists : SetItem(key, ListOf(values))
    \/ \E key \in {IntKey(i) : i \in Indexes} \cup SliceKeys \cup {OtherKey} : DelItem(key)
    \/ \E index \in 1..Len(items), v \in ItemInputs : ItemSet(index, v)

ListSpec == ListInit /\ [][ListNext]_vars

(***************************************************************************)
(* The client's calls on a PropertyValueList constructed without cast and  *)
(* validate functions: set and __setitem__.                                *)
(***************************************************************************)
PlainConstructed ==
    {W \in {PropertyValueList_init(vs, "None", "None", "None", TRUE, "plain", "plain") :
               vs \in {NoneList} \cup {ListOf(a) : a \in ArgLists}} :
        W.exc = "none"}

PlainInit ==
    /\ \E W \in PlainConstructed :
           /\ pv = W.pv
           /\ items = W.items
           /\ log = W.log
           /\ res = NoRes
           /\ old = [pv |-> W.pv, items |-> W.items]
    /\ AsyncUnused

PlainNext ==
    \/ Forget
    \/ \E values \in ArgLists : ListSet(values)
    \/ \E key \in {IntKey(i) : i \in Indexes}, x \in ItemInputs : SetItem(key, x)
    \/ \E key \in SliceKeys, values \in ArgLists : SetItem(key, ListOf(values))

PlainSpec == PlainInit /\ [][PlainNext]_vars

(***************************************************************************)
(* The client's calls on a PropertyValueList whose items carry listeners   *)
(* of their own: getPropertyValueList()[index - 1].addListener(name, f),   *)
(* then the calls that keep, move or replace the items.                    *)
(***************************************************************************)
ItemAddListener(index, name, callback) ==
    /\ res.op = "idle"
    /\ items' = [items EXCEPT ![index] = PropertyValue_addListener(@, name, callback)]
    /\ res' = Result(Start, [NoRes EXCEPT !.op = "item.addListener", !.to = index,
                                          !.name = name, !.cb = callback])
    /\ UNCHANGED <<pv, log, old>>
    /\ UNCHANGED asyncVars

ChildConstructed ==
    {W \in {PropertyValueList_init(vs, "toInt", "None", "None", TRUE, "plain", "plain") :
               vs \in {ListOf(a) : a \in ArgLists}} :
        W.exc = "none"}

ChildInit ==
    /\ \E W \in ChildConstructed :
           /\ pv = W.pv
           /\ items = W.items
           /\ log = W.log
           /\ res = NoRes
           /\ old = [pv |-> W.pv, items |-> W.items]
    /\ AsyncUnused

ChildNext ==
    \/ Forget
    \/ ListAddListener("a", "plain")
    \/ \E index \in 1..Len(items) : ItemAddListener(index, "a", "plain")
    \/ \E values \in ArgLists : ListSet(values)
    \/ \E values \in ArgLists : ListSetNoRecreate(values)
    \/ \E from \in Indexes, to \in 0..(MaxLen - 1) : Move(from, to)
    \/ \E key \in {IntKey(i) : i \in Indexes}, x \in ItemInputs : SetItem(key, x)
    \/ \E key \in SliceKeys, values \in ArgLists : SetItem(key, ListOf(values))

ChildSpec == ChildInit /\ [][ChildNext]_vars

(***************************************************************************)
(* What the properties below say about the last operation.  The cast and   *)
(* validate functions are pure, so their verdict on the argument of the    *)
(* last set is computed here from the object as it was when set was        *)
(* called.                                                                 *)
(***************************************************************************)
CastOfArg == ApplyCast(old.pv, res.v)

VerdictOfArg == ApplyValidate(old.pv, CastOfArg.v)

\* The argument of the last set differs, in value or in validity, from the
\* pair the object last notified.
DiffersFromLastNotified ==
    \/ CastOfArg.v # old.pv.lastValue
    \/ (VerdictOfArg = "none") # old.pv.lastValid

CallsTo(key) == Len(SelectSeq(log, LAMBDA c : c.obj = 0 /\ c.who = key))

Keys(listeners) == {listeners[i].name : i \in 1..Len(listeners)}

KindsOf(listeners) == {listeners[i].cb : i \in 1..Len(listeners)}

\* The calls one dispatch on pv owes: pre-hook, the listeners registered when
\* the operation was called in the order of their registration, post-hook.
Owed ==
    (IF old.pv.preNotifyFunc = "None" THEN <<>>
     ELSE <<[cb |-> old.pv.preNotifyFunc, who |-> <<"PreNotify">>]>>)
    \o [i \in 1..Len(old.pv.changeListeners) |->
          [cb |-> old.pv.changeListeners[i].cb, who |-> old.pv.changeListeners[i].name]]
    \o (IF old.pv.postNotifyFunc = "None" THEN <<>>
        ELSE <<[cb |-> old.pv.postNotifyFunc, who |-> <<"PostNotify">>]>>)

Made == [i \in 1..Len(log) |-> [cb |-> log[i].cb, who |-> log[i].who]]

\* The value a set or revalidate that returned has stored.
CastOfArgOrValue ==
    IF res.op = "set" THEN CastOfArg.v ELSE ApplyCast(old.pv, old.pv.value).v

\* The outcome of the cast function on the argument of the last set, made on
\* pv or on the child res.to.
CastOfSetArg ==
    IF res.op = "item.set" THEN ApplyCast(old.items[res.to], res.v) ELSE CastOfArg

\* The kind of the last adder or remover called by the last operation.
LastChange ==
    LET at == {i \in 1..Len(log) : log[i].cb \in {"adder", "remover"}}
    IN  IF at = {} THEN "none"
        ELSE log[CHOOSE i \in at : \A j \in at : j <= i].cb

\* C1: after set (recreate=true), append, extend, pop, move, __setitem__ and
\* __delitem__ there are as many child items as raw values, and after one
\* that raised both numbers are what they were when it was called.
C1_LengthsAgree ==
    (res.op \in {"set", "append", "extend", "pop", "move", "setitem", "delitem"})
    => /\ Len(items) = RawLen(Start)
       /\ res.exc # "none" => /\ Len(items) = Len(old.items)
                              /\ RawLen(Start) = RawLen(old)

\* C2: whenever a pre-notify hook, a listener or a post-notify hook of the
\* list is called during construction, set (recreate=true), append, extend,
\* pop, move or __delitem__, it finds as many child items as raw values.
C2_NoIntermediateState ==
    (res.op \in {"init", "set", "append", "extend", "pop", "move", "delitem"})
    => \A i \in 1..Len(log) :
          log[i].obj = 0 => log[i].nItems = log[i].nRaw

\* C3: with allowInvalid=false a set of a value that casts but fails
\* validation raises the validation error and changes nothing: value,
\* validity, last-notified pair and listeners are as before, and no pre-hook,
\* listener or post-hook is called.
C3_InvalidSetRejectedAtomically ==
    (/\ res.op = "set"
     /\ ~old.pv.allowInvalid
     /\ CastOfArg.exc = "none"
     /\ VerdictOfArg = "ValueError")
    => (res.exc = "ValueError" /\ pv = old.pv /\ log = <<>>)

C3_Witness ==
    /\ res.op = "set" /\ res.exc = "ValueError"
    /\ ~old.pv.allowInvalid
    /\ CastOfArg.exc = "none" /\ VerdictOfArg = "ValueError"
    /\ old.pv.valid /\ CastOfArg.v # old.pv.value
    /\ Len(old.pv.changeListeners) = 2 /\ old.pv.preNotifyFunc # "None"

\* C4 as claimed: with allowInvalid=true, after a set of a value that fails
\* validation get() returns the value, isValid() is false and each registered
\* listener was called exactly once for that set, with (value, False).
C4_AsClaimed ==
    (/\ res.op = "set"
     /\ old.pv.allowInvalid
     /\ CastOfArg.exc = "none"
     /\ VerdictOfArg = "ValueError")
    => /\ res.exc = "none"
       /\ PropertyValue_get(pv) = CastOfArg.v
       /\ ~PropertyValue_isValid(pv)
       /\ \A key \in Keys(old.pv.changeListeners) : CallsTo(key) = 1
       /\ \A i \in 1..Len(log) : log[i].value = CastOfArg.v /\ ~log[i].valid

\* C4 as amended: the value is stored and isValid() is false; each listener
\* registered when set was called is called exactly once, with (value, False),
\* when (value, False) differs from the pair last notified, and is not called
\* when it does not differ.
C4_InvalidValueStored ==
    (/\ res.op = "set"
     /\ old.pv.allowInvalid
     /\ CastOfArg.exc = "none"
     /\ VerdictOfArg = "ValueError")
    => /\ res.exc = "none"
       /\ PropertyValue_get(pv) = CastOfArg.v
       /\ ~PropertyValue_isValid(pv)
       /\ \A key \in Keys(old.pv.changeListeners) :
             CallsTo(key) = IF DiffersFromLastNotified THEN 1 ELSE 0
       /\ \A i \in 1..Len(log) : log[i].value = CastOfArg.v /\ ~log[i].valid

C4_Witness ==
    /\ res.op = "set" /\ res.exc = "none"
    /\ old.pv.allowInvalid
    /\ CastOfArg.exc = "none" /\ VerdictOfArg = "ValueError"
    /\ res.v # CastOfArg.v
    /\ old.pv.valid
    /\ Len(old.pv.changeListeners) = 2 /\ ListenerCalls(log) = 2

\* C5: when the cast function raises during set, on a PropertyValueList or
\* on one of its child PropertyValue objects, the error reaches the caller,
\* the object and the children are as they were (value, validity,
\* last-notified pair, raw values, child items) and no callback was called.
C5_CastErrorLeavesStateUnchanged ==
    (res.op \in {"set", "item.set"} /\ CastOfSetArg.exc # "none")
    => (res.exc = CastOfSetArg.exc /\ pv = old.pv /\ items = old.items /\ log = <<>>)

\* set(values) on a list that has children and a listener, with a value the
\* item cast function raises on
C5_Witness ==
    /\ res.op = "set" /\ CastOfSetArg.exc # "none" /\ res.exc # "none"
    /\ Len(old.items) > 0 /\ Len(old.pv.changeListeners) > 0
    /\ old.pv.allowInvalid

\* C6 as claimed: of two consecutive set(v), the first fires the listeners
\* exactly once and the second calls nothing.
C6_AsClaimed ==
    (res.op = "set" /\ res.again /\ old.pv.changeListeners # <<>>)
    => (res.before > 0 /\ log = <<>>)

\* C6 as amended: the second of two consecutive set(v) calls no pre-hook,
\* listener or post-hook; a set(v) that returns calls every listener exactly
\* once when (v, validity) differs from the pair last notified, and calls
\* nothing when it does not (so the first of the two fires at most once).
C6_SecondSetIsSilent ==
    /\ (res.op = "set" /\ res.again) => log = <<>>
    /\ (res.op = "set" /\ res.exc = "none") =>
          IF DiffersFromLastNotified
          THEN \A key \in Keys(old.pv.changeListeners) : CallsTo(key) = 1
          ELSE log = <<>>

C6_Witness ==
    /\ res.op = "set" /\ res.again /\ res.before = 2
    /\ Len(pv.changeListeners) = 2
    /\ pv.preNotifyFunc # "None" /\ pv.postNotifyFunc # "None"

\* C7: a dispatch calls the pre-hook, then the listeners in the order of their
\* registration, then the post-hook, each once, with the new value and its
\* validity; a listener registered under a new name is the last listener.
C7_DispatchOrder ==
    /\ (res.op \in {"set", "revalidate"} /\ log # <<>>) =>
          /\ Made = Owed
          /\ \A i \in 1..Len(log) :
                log[i].value = pv.value /\ log[i].valid = pv.valid
    /\ (res.op = "addListener"
        /\ ListenerKey(old.pv, res.name) \notin Keys(old.pv.changeListeners)) =>
          pv.changeListeners =
              Append(old.pv.changeListeners,
                     [name |-> ListenerKey(old.pv, res.name), cb |-> res.cb])

C7_Witness ==
    /\ res.op = "set" /\ Len(log) = 4
    /\ log[1].who = <<"PreNotify">> /\ log[4].who = <<"PostNotify">>
    /\ log[2].who = ListenerKey(pv, "b") /\ log[3].who = ListenerKey(pv, "a")
    /\ log[1].value # old.pv.value

\* C8: a pre-hook, listener or post-hook that raises stops no later callback
\* of the dispatch, the error does not reach the caller of set, and the value,
\* validity and listeners are what they are without the failure.
C8_RaisingCallbackIsolated ==
    (res.op \in {"set", "revalidate"} /\ \E i \in 1..Len(log) : log[i].cb = "raiser")
    => /\ res.exc = "none"
       /\ Len(log) = Len(Owed)
       /\ pv.value = CastOfArgOrValue
       /\ pv.valid = (ApplyValidate(old.pv, pv.value) = "none")
       /\ (KindsOf(old.pv.changeListeners) \subseteq {"plain", "raiser"}) =>
              pv.changeListeners = old.pv.changeListeners

C8_Witness ==
    /\ res.op = "set" /\ res.exc = "none" /\ Len(log) = 4
    /\ log[1].cb = "raiser" /\ log[2].cb = "raiser" /\ log[3].cb = "plain"

\* C9: a dispatch calls the listeners registered when it started: one added
\* by a callback during the dispatch is not called in it, one removed by a
\* callback during the dispatch is still called in it; afterwards the added
\* one is registered and the removed one is not, so the next dispatch calls
\* the former and not the latter.
C9_ListenersSnapshotted ==
    (res.op \in {"set", "revalidate"} /\ log # <<>>)
    => /\ \A key \in Keys(old.pv.changeListeners) : CallsTo(key) = 1
       /\ \A i \in 1..Len(log) :
             Len(log[i].who) = 3 => log[i].who \in Keys(old.pv.changeListeners)
       /\ LastChange = "adder" => ListenerKey(pv, AddedName) \in Keys(pv.changeListeners)
       /\ LastChange = "remover" =>
             ListenerKey(pv, RemovedName) \notin Keys(pv.changeListeners)

C9_WitnessAdded ==
    /\ res.op = "set" /\ log # <<>>
    /\ ListenerKey(pv, AddedName) \notin Keys(old.pv.changeListeners)
    /\ ListenerKey(pv, AddedName) \in Keys(pv.changeListeners)

C9_Witness ==
    /\ res.op = "set" /\ Len(log) >= 2
    /\ log[1].cb = "remover"
    /\ log[2].who = ListenerKey(pv, RemovedName)
    /\ ListenerKey(pv, RemovedName) \notin Keys(pv.changeListeners)

\* C10: after list[i] = x with i in range, the raw value and the child at i
\* hold x and every other raw value and child is as it was; after
\* list[a:b] = vs, each position of the slice holds its element of vs.
C10_SetItemStores ==
    (res.op = "setitem" /\ res.exc = "none")
    => LET was == old.pv.value.n
           now == pv.value.n
           cast(x) == ItemCast(old.pv.itemCastFunc, x).v
       IN  IF res.key.kind = "int"
           THEN LET p == Position(res.key.a, Len(was))
                IN  /\ Len(now) = Len(was) /\ Len(items) = Len(old.items)
                    /\ now[p] = cast(res.v)
                    /\ PropertyValue_get(items[p]) = cast(res.v)
                    /\ \A j \in 1..Len(now) :
                          j # p => now[j] = was[j] /\ items[j] = old.items[j]
           ELSE LET range == SliceRange(res.key, Len(was))
                IN  \A k \in 1..Len(range) :
                       /\ now[range[k]] = cast(res.v.n[k])
                       /\ PropertyValue_get(items[range[k]]) = cast(res.v.n[k])

\* The calls the last operation made to the listeners (hooks excluded) of
\* object t, 0 for the list and i for the item at position i.
ListenerCallsOn(t) ==
    SelectSeq(log, LAMBDA c : c.obj = t /\ c.who \notin {<<"PreNotify">>, <<"PostNotify">>})

\* C11: list[i] = x with i in range and x castable to a value other than the
\* one the child at i holds (or list[a:b] = vs of the slice's length)
\* returns, leaves at each affected position the child that was there with
\* the listeners it had, calls each of that child's listeners with the new
\* value, and calls the list's listeners.
C11_SetItemKeepsChildAndNotifies ==
    LET was  == old.pv.value.n
        cast(x) == ItemCast(old.pv.itemCastFunc, x)
        kept(p, x) ==
            /\ items[p].origin = p
            /\ items[p].changeListeners = old.items[p].changeListeners
            /\ \A i \in 1..Len(old.items[p].changeListeners) :
                  \E c \in 1..Len(ListenerCallsOn(p)) :
                     /\ ListenerCallsOn(p)[c].who = old.items[p].changeListeners[i].name
                     /\ ListenerCallsOn(p)[c].value = cast(x).v
    IN  (/\ res.op = "setitem"
         /\ old.pv.value.k = "list" /\ Len(old.items) = Len(was))
        => IF res.key.kind = "int"
           THEN LET p == Position(res.key.a, Len(was))
                IN  (/\ p # 0 /\ cast(res.v).exc = "none"
                     /\ cast(res.v).v # PropertyValue_get(old.items[p]))
                    => /\ res.exc = "none"
                       /\ Len(items) = Len(old.items)
                       /\ kept(p, res.v)
                       /\ old.pv.changeListeners # <<>> => ListenerCallsOn(0) # <<>>
           ELSE TRUE

\* C12: getPropertyValueList()[i].set(v), with v cast to a value other than
\* the one the child holds, calls the listeners of the list.
C12_ItemSetNotifiesList ==
    (/\ res.op = "item.set" /\ res.exc = "none"
     /\ ApplyCast(old.items[res.to], res.v).exc = "none"
     /\ ApplyCast(old.items[res.to], res.v).v # PropertyValue_get(old.items[res.to])
     /\ old.pv.changeListeners # <<>>)
    => ListenerCallsOn(0) # <<>>

\* The verdicts of the two validate functions on the values the list holds.
ListCheckPasses == ListValidate(pv.listValidateFunc, pv.value) = "none"

ItemChecksPass ==
    \A i \in 1..Len(pv.value.n) :
       ItemValidate(pv.itemValidateFunc, pv.value.n[i]) = "none"

\* C13 as claimed: after a whole-list set that returns, the list's valid flag
\* is the verdict of the list-level validate function alone; an element that
\* fails the item validator does not make it false.
C13_AsClaimed ==
    (res.op = "set" /\ res.exc = "none") => (pv.valid = ListCheckPasses)

\* C13: after a whole-list set that returns, the list's valid flag is true
\* exactly when the list-level validate function passes and every element
\* passes the item-level validate function; with allowInvalid false a set
\* with an element that fails the item validator raises and stores nothing.
C13_ItemValidityFoldedIn ==
    /\ (res.op = "set" /\ res.exc = "none")
        => /\ pv.valid = (ListCheckPasses /\ ItemChecksPass)
           /\ ~pv.allowInvalid => pv.valid
    /\ (/\ res.op = "set" /\ ~old.pv.allowInvalid /\ CastOfArg.exc = "none"
         /\ \E i \in 1..Len(CastOfArg.v.n) :
               ItemValidate(old.pv.itemValidateFunc, CastOfArg.v.n[i]) # "none")
        => res.exc = "ValueError"

C13_Witness ==
    /\ res.op = "set" /\ res.exc = "none"
    /\ ListCheckPasses /\ ~ItemChecksPass /\ ~pv.valid

\* The number of values the last append or extend was to add.
Added == IF res.op = "append" THEN 1 ELSE Len(res.v.n)

AddedCastable ==
    IF res.op = "append" THEN ItemCast(old.pv.itemCastFunc, res.v).exc = "none"
    ELSE \A i \in 1..Len(res.v.n) :
            ItemCast(old.pv.itemCastFunc, res.v.n[i]).exc = "none"

Untouched == pv = old.pv /\ items = old.items /\ log = <<>>

\* C14: on a list whose length is bounded above (listValidateFunc rejects
\* the lengths beyond the bound), append and extend of castable values
\* return while the resulting length is within the bound, and otherwise
\* raise and leave the values and the items as they were, with no listener
\* called.
C14_MaxLengthBoundsAppend ==
    (/\ res.op \in {"append", "extend"}
     /\ old.pv.listValidateFunc = "maxLength" /\ old.pv.value.k = "list"
     /\ AddedCastable)
    => IF Len(old.pv.value.n) + Added < MaxLen
       THEN res.exc = "none"
       ELSE res.exc # "none" /\ Untouched

\* C15: on a list whose length is bounded below, pop and __delitem__ that
\* would take the length below the bound raise and leave the values and the
\* items as they were, with no listener called.
C15_MinLengthBoundsRemoval ==
    LET was == old.pv.value.n
        removed == IF res.key.kind = "int"
                   THEN (IF Position(res.key.a, Len(was)) = 0 THEN 0 ELSE 1)
                   ELSE Len(SliceRange(res.key, Len(was)))
    IN  (/\ res.op \in {"pop", "delitem"}
         /\ old.pv.listValidateFunc = "minLength" /\ old.pv.value.k = "list"
         /\ removed > 0
         /\ Len(was) - removed < MaxLen - 1)
        => res.exc # "none" /\ Untouched

\* The key of the last pop, move, __delitem__ or __setitem__ is an index out
\* of the range of the raw values, a key that is neither an int nor a slice,
\* or a slice that selects another number of positions than there are
\* values.
BadKey ==
    LET n == Len(old.pv.value.n)
    IN  /\ res.op \in {"pop", "move", "delitem", "setitem"}
        /\ \/ res.key.kind = "int" /\ Position(res.key.a, n) = 0
           \/ res.key.kind = "other"
           \/ /\ res.op = "setitem" /\ res.key.kind = "slice"
              /\ Len(SliceRange(res.key, n)) # Len(res.v.n)

\* C16: pop, move, __delitem__ and __setitem__ called with an index out of
\* range (for move: the index from), a key of another type or a slice of the
\* wrong size raise, leave the raw values, the items and every child as they
\* were, and call no listener.
C16_BadKeyRaisesCleanly == BadKey => (res.exc # "none" /\ Untouched)

\* C16 as claimed: the same, with the index to of move counted among the
\* indices that must be in range.
C16_AsClaimed ==
    (BadKey \/ (res.op = "move" /\ res.to >= Len(old.pv.value.n)))
    => (res.exc # "none" /\ Untouched)

C16_Witness ==
    /\ BadKey /\ res.op = "pop" /\ res.exc = "IndexError"
    /\ Len(old.pv.value.n) > 0 /\ Len(items) > 0
    /\ pv.changeListeners # <<>>

\* s with the element at position f taken out and put back at position t
Moved(s, f, t) ==
    LET rest == SubSeq(s, 1, f - 1) \o SubSeq(s, f + 1, Len(s))
    IN  SubSeq(rest, 1, t - 1) \o <<s[f]>> \o SubSeq(rest, t, Len(rest))

\* C17: move(from, to) with both indices in range returns; afterwards the
\* raw values and the items are those before the call with the element at
\* from taken out and put back at to: the child that was at from is at to,
\* every child is one that was there before, with the listeners and the
\* value it had, and no child is created or destroyed.
C17_MovePermutesBoth ==
    LET was == old.pv.value.n
        f == Position(res.key.a, Len(was))
        t == res.to + 1
    IN  (res.op = "move" /\ f # 0 /\ t <= Len(was))
        => /\ res.exc = "none"
           /\ Len(old.items) = Len(was)
           /\ pv.value.n = Moved(was, f, t)
           /\ items = Moved(old.items, f, t)
           /\ items[t].origin = f

\* C18: pop(index) with index in range returns the raw value that was at
\* index; afterwards the raw values and the items are those before the call
\* without the element at index.
C18_PopReturnsRawValue ==
    LET was == old.pv.value.n
        p == Position(res.key.a, Len(was))
    IN  (res.op = "pop" /\ p # 0)
        => /\ res.exc = "none"
           /\ pv.value.n = Remove(was, p)
           /\ Len(old.items) = Len(was)
           /\ items = Remove(old.items, p)
           /\ res.ret = was[p]

\* C19: insert(index, item) of a castable item into a list that may grow
\* returns; afterwards the raw values hold the item at index and the items
\* hold a new child there, and the values and children that were there
\* before keep their order.
C19_InsertSupported ==
    LET was == old.pv.value.n
        at == IF res.key.a >= Len(was) THEN Len(was) + 1
              ELSE IF res.key.a >= 0 THEN res.key.a + 1
              ELSE Max(Len(was) + res.key.a, 0) + 1
        x == ItemCast(old.pv.itemCastFunc, res.v)
    IN  (/\ res.op = "insert" /\ old.pv.value.k = "list" /\ x.exc = "none"
         /\ old.pv.listValidateFunc # "maxLength")
        => /\ res.exc = "none"
           /\ pv.value.n = InsertAt(was, at, x.v)
           /\ Len(items) = Len(old.items) + 1
           /\ items[at].origin = 0
           /\ Remove(items, at) = old.items

\* C20: a set(values, recreate=True) that returns stores the cast values and
\* makes the items a sequence of new children, one per value and holding it,
\* none of which carries a listener; a set(values, recreate=False) that
\* returns stores the cast values and leaves the items, with their values
\* and listeners, as they were.
C20_RecreateRebuildsItems ==
    (res.op = "set" /\ res.exc = "none")
    => /\ pv.value = CastOfArg.v
       /\ IF res.flag
          THEN /\ Len(items) = Len(res.v.n)
               /\ \A i \in 1..Len(items) :
                     /\ items[i].origin = 0
                     /\ items[i].changeListeners = <<>>
                     /\ PropertyValue_get(items[i]) = CastOfArg.v.n[i]
          ELSE items = old.items

C20_Witness ==
    /\ res.op = "set" /\ res.exc = "none" /\ res.flag
    /\ Len(items) > 0
    /\ \E i \in 1..Len(old.items) : old.items[i].changeListeners # <<>>

C20_WitnessKept ==
    /\ res.op = "set" /\ res.exc = "none" /\ ~res.flag
    /\ pv.value # old.pv.value
    /\ \E i \in 1..Len(items) : items[i].changeListeners # <<>>

\* C21: revalidate() leaves the stored value as it was; when it returns, it
\* has called the pre-hook, each listener and the post-hook exactly once if
\* the validity of the value differs from the validity last notified, and
\* has called nobody if neither the value nor its validity differs from the
\* pair last notified; on a list the items are the children they were.
C21_RevalidateKeepsValue ==
    (res.op = "revalidate")
    => /\ pv.value = old.pv.value
       /\ items = old.items
       /\ res.exc # "none" => (pv = old.pv /\ log = <<>>)
       /\ res.exc = "none"
          => /\ (pv.valid # old.pv.lastValid) => Made = Owed
             /\ (/\ pv.valid = old.pv.lastValid
                 /\ old.pv.value = old.pv.lastValue) => log = <<>>
             /\ pv.lastValue = pv.value /\ pv.lastValid = pv.valid

C21_Witness ==
    /\ res.op = "revalidate" /\ res.exc = "none"
    /\ pv.valid # old.pv.lastValid
    /\ old.pv.changeListeners # <<>>
    /\ Made = Owed

\* C22: isValid() returns the validity set would compute for the stored
\* value, true when the validate function accepts it and true when there is
\* no validate function; it changes no stored state and calls no listener.
C22_IsValidAgreesWithSet ==
    (res.op = "isValid")
    => /\ res.ok = (ApplyValidate(pv, PropertyValue_get(pv)) = "none")
       /\ pv = old.pv /\ items = old.items /\ log = <<>>

\* The stored pair of o is the pair last notified, and the stored validity
\* is the verdict of the validate function on the stored value.
Notified(o) ==
    /\ o.value = o.lastValue /\ o.valid = o.lastValid
    /\ o.valid = (ApplyValidate(o, PropertyValue_get(o)) = "none")

\* C23 as claimed: between calls, from construction onward, the object is in
\* a notified state.
C23_AsClaimed == Notified(pv)

\* C23: once a set or revalidate has returned, the object is in a notified
\* state between calls: a set or revalidate that returns leaves it notified,
\* and no call takes a notified object out of that state.
C23_NotifiedAfterFirstSet ==
    /\ (res.op \in {"set", "revalidate"} /\ res.exc = "none") => Notified(pv)
    /\ Notified(old.pv) => Notified(pv)

C23_Witness ==
    /\ res.op = "set" /\ res.exc = "none"
    /\ ~Notified(old.pv) /\ Notified(pv)
    /\ ~pv.valid

\* The listeners registered on o under other keys than key, in their order.
Others(o, key) == SelectSeq(o.changeListeners, LAMBDA l : l.name # key)

Registered(o, key) == SelectSeq(o.changeListeners, LAMBDA l : l.name = key)

\* C24: after addListener(name, f) exactly one listener is registered under
\* name, and it is f, whether or not the name was registered before; after
\* removeListener(name) none is, and if none was the object is as it was;
\* neither touches the listeners of other names; and a dispatch calls, for
\* each name, at most once the callback that was registered under it when
\* the dispatch began, never a callback that was replaced or removed.
C24_ListenersKeyedByName ==
    LET key == ListenerKey(old.pv, res.name)
    IN  /\ res.op = "addListener"
           => /\ Registered(pv, key) = <<[name |-> key, cb |-> res.cb]>>
              /\ Others(pv, key) = Others(old.pv, key)
        /\ res.op = "removeListener"
           => /\ Registered(pv, key) = <<>>
              /\ Others(pv, key) = Others(old.pv, key)
              /\ Registered(old.pv, key) = <<>> => pv = old.pv
        /\ res.op \in {"set", "revalidate"}
           => \A i \in 1..Len(log) :
                 Len(log[i].who) = 3
                 => /\ Registered(old.pv, log[i].who)
                         = <<[name |-> log[i].who, cb |-> log[i].cb]>>
                    /\ CallsTo(log[i].who) = 1

C24_Witness ==
    LET key == ListenerKey(old.pv, res.name)
    IN  /\ res.op = "addListener"
        /\ Len(old.pv.changeListeners) = 2
        /\ Registered(old.pv, key) # <<>>
        /\ Registered(old.pv, key)[1].cb # res.cb

\* The calls the last operation made to callback who of object t.
CallsOf(t, who) == Len(SelectSeq(log, LAMBDA c : c.obj = t /\ c.who = who))

\* C25: one call on a list or on one of its items makes finitely many
\* callback calls: each hook and listener of the list and of each item it
\* notifies is called at most once, and the revalidate of the list that an
\* item's post-notify hook makes notifies no item again.
C25_NotificationTerminates ==
    /\ \A i \in 1..Len(log) : CallsOf(log[i].obj, log[i].who) = 1
    /\ res.op = "item.set" => \A i \in 1..Len(log) : log[i].obj \in {0, res.to}

C25_Witness ==
    /\ res.op = "item.set" /\ res.exc = "none"
    /\ CallsOf(res.to, <<"PostNotify">>) = 1
    /\ pv.changeListeners # <<>>
    /\ Len(items) = MaxLen

(***************************************************************************)
(* The idle loop and run.  The clients call run and idle, the thread made  *)
(* by run calls its wrapper, wx delivers idle events, and time passes.     *)
(***************************************************************************)
PropsUnused ==
    /\ pv = None /\ items = <<>> /\ log = <<>> /\ res = NoRes
    /\ old = [pv |-> None, items |-> <<>>]

Afters == {0, 1}

Timeouts == {0, 1}

IdleInit ==
    /\ haveWX \in BOOLEAN
    /\ idleRegistered = FALSE /\ idleQueue = <<>> /\ idleQueueSet = {}
    /\ time = 0 /\ thread = NoThread /\ handled = NoRun
    /\ ThreadUnused
    /\ MemoUnused
    /\ PropsUnused

Run(task, onFinish, onError) ==
    /\ ~thread.alive
    /\ Len(idleQueue) < MaxQueue
    /\ IF haveWX
       THEN /\ thread' = Thread(task, onFinish, onError, TRUE)
            /\ handled' = Handled(thread', <<>>, "none", FALSE)
            /\ UNCHANGED <<idleRegistered, idleQueue, idleQueueSet>>
       ELSE \E W \in {run_wrapper(IdleWorld, task, onFinish, onError)} :
                /\ thread' = NoThread
                /\ handled' = Handled(Thread(task, onFinish, onError, FALSE),
                                      W.calls, W.exc, TRUE)
                /\ idleRegistered' = W.idleRegistered
                /\ idleQueue' = W.idleQueue
                /\ idleQueueSet' = W.idleQueueSet
    /\ UNCHANGED <<haveWX, time, threadVars, propVars, memoVars>>

WrapperThread ==
    /\ thread.alive
    /\ \E W \in {run_wrapper(IdleWorld, thread.task, thread.onFinish, thread.onError)} :
           /\ thread' = [thread EXCEPT !.alive = FALSE]
           /\ handled' = Handled(thread', W.calls, W.exc, TRUE)
           /\ idleRegistered' = W.idleRegistered
           /\ idleQueue' = W.idleQueue
           /\ idleQueueSet' = W.idleQueueSet
    /\ UNCHANGED <<haveWX, time, threadVars, propVars, memoVars>>

CallIdle(task, name, after, timeout) ==
    /\ Len(idleQueue) + (IF thread.alive THEN 1 ELSE 0) < MaxQueue
    /\ \E W \in {async_idle(IdleWorld, task, "none", name, after, timeout)} :
           /\ idleRegistered' = W.idleRegistered
           /\ idleQueue' = W.idleQueue
           /\ idleQueueSet' = W.idleQueueSet
    /\ UNCHANGED <<haveWX, time, thread, handled, threadVars, propVars, memoVars>>

wxIdleLoop ==
    /\ idleRegistered
    /\ IF idleQueue = <<>>
       THEN UNCHANGED <<idleQueue, idleQueueSet>>
       ELSE LET task    == Head(idleQueue)
                elapsed == time - task.schedtime
            IN  IF elapsed < task.after
                THEN /\ idleQueue' = Append(Tail(idleQueue), task)
                     /\ UNCHANGED idleQueueSet
                ELSE IF task.timeout = 0 \/ elapsed < task.timeout
                THEN /\ idleQueue' = Tail(idleQueue)
                     /\ idleQueueSet' =
                            IF task.task.beh # "raises" /\ task.name # NoName
                            THEN idleQueueSet \ {task.name}
                            ELSE idleQueueSet
                ELSE /\ idleQueue' = Tail(idleQueue)
                     /\ UNCHANGED idleQueueSet
    /\ UNCHANGED <<haveWX, idleRegistered, time, thread, handled, threadVars, propVars, memoVars>>

Tick ==
    /\ time < MaxTime
    /\ time' = time + 1
    /\ UNCHANGED <<haveWX, idleRegistered, idleQueue, idleQueueSet, thread, handled,
                   threadVars, propVars, memoVars>>

RunNext ==
    \/ \E task \in Functions("task"),
          onFinish \in Functions("onFinish") \cup {NoFunc},
          onError \in Functions("onError") \cup {NoFunc} : Run(task, onFinish, onError)
    \/ WrapperThread
    \/ wxIdleLoop

RunSpec == IdleInit /\ [][RunNext]_vars

IdleNext ==
    \/ \E task \in Functions("task"), name \in {NoName, "a"},
          after \in Afters, timeout \in Timeouts : CallIdle(task, name, after, timeout)
    \/ wxIdleLoop
    \/ Tick

IdleSpec == IdleInit /\ [][IdleNext]_vars

HandlerCalls(kind) == SelectSeq(handled.calls, LAMBDA c : c.func.kind = kind)

(* C26: when a call of run that was given both handlers has run its task, *)
(* exactly one handler was called or scheduled, once: onFinish if the     *)
(* task returned, onError with the task's exception if the task raised.   *)
C26_ExactlyOneHandler ==
    (handled.done /\ handled.onFinish # NoFunc /\ handled.onError # NoFunc)
    => IF handled.task.beh = "returns"
       THEN /\ Len(HandlerCalls("onFinish")) = 1
            /\ HandlerCalls("onError") = <<>>
       ELSE /\ Len(HandlerCalls("onError")) = 1
            /\ HandlerCalls("onError")[1].args = "task"
            /\ HandlerCalls("onFinish") = <<>>

QueuedOnIdle(name) == \E i \in 1..Len(idleQueue) : idleQueue[i].name = name

(* C27: inIdle(name) is True exactly while a task scheduled under that   *)
(* name is on the idle queue: once each of them has been run or dropped, *)
(* timed out ones included, inIdle(name) is False.                       *)
C27_InIdleWhileQueued == \A name \in TaskNames : inIdle(name) <=> QueuedOnIdle(name)

(***************************************************************************)
(* The TaskThread.  The clients call start, enqueue, dequeue and stop;     *)
(* the thread takes one step of run at a time, so that the clients' calls  *)
(* fall anywhere between two statements of the loop.                       *)
(***************************************************************************)
ThreadInit == TaskThread_init /\ IdleUnused /\ MemoUnused /\ PropsUnused

(* The Task objects that wait in the queue under this name. *)
Waiting(name) == {q.v[i] : i \in {j \in 1..Len(q.v) : tasks[q.v[j]].name = name}}

TaskThread_start ==
    /\ pc = "new"
    /\ pc' = "get"
    /\ UNCHANGED <<q, enqueued, stop, cur, tasks, started, cancelled, seen, stopAt>>
    /\ UNCHANGED <<idleVars, propVars, memoVars>>

TaskThread_enqueue(name, func) ==
    /\ Len(tasks) < MaxTasks
    /\ IF enqueued.none
       THEN UNCHANGED <<q, enqueued, tasks>>
       ELSE /\ tasks' = Append(tasks, Task(name, func))
            /\ enqueued' = Dict([enqueued.d EXCEPT ![name] = Len(tasks')])
            /\ q' = Queue(Append(q.v, Len(tasks')))
    /\ UNCHANGED <<stop, pc, cur, started, cancelled, seen, stopAt>>
    /\ UNCHANGED <<idleVars, propVars, memoVars>>

TaskThread_dequeue(name) ==
    /\ IF enqueued.none
       THEN UNCHANGED <<tasks, cancelled>>
       ELSE /\ tasks' = IF enqueued.d[name] # 0
                        THEN [tasks EXCEPT ![enqueued.d[name]].enabled = FALSE]
                        ELSE tasks
            /\ cancelled' = cancelled \cup Waiting(name)
    /\ UNCHANGED <<q, enqueued, stop, pc, cur, started, seen, stopAt>>
    /\ UNCHANGED <<idleVars, propVars, memoVars>>

TaskThread_stop ==
    /\ stop' = TRUE
    /\ stopAt' = IF stop THEN stopAt ELSE pc
    /\ UNCHANGED <<q, enqueued, pc, cur, tasks, started, cancelled, seen>>
    /\ UNCHANGED <<idleVars, propVars, memoVars>>

(* task = self.__q.get(timeout=1): a Task, or queue.Empty a second later. *)
run_get ==
    /\ pc = "get"
    /\ IF q.v # <<>>
       THEN cur' = Head(q.v) /\ q' = Queue(Tail(q.v))
       ELSE cur' = 0 /\ UNCHANGED q
    /\ pc' = "finally"
    /\ UNCHANGED <<enqueued, stop, tasks, started, cancelled, seen, stopAt>>
    /\ UNCHANGED <<idleVars, propVars, memoVars>>

(* A loop whose test of the stop flag follows the try statement: the *)
(* continue of except queue.Empty then skips the test.               *)
run_finally_afterTry ==
    /\ pc = "finally"
    /\ pc' = IF cur = 0 THEN "get" ELSE IF stop THEN "break" ELSE "pop"
    /\ seen' = (seen \/ (stop /\ cur # 0))
    /\ UNCHANGED <<q, enqueued, stop, cur, tasks, started, cancelled, stopAt>>
    /\ UNCHANGED <<idleVars, propVars, memoVars>>

(* finally: if self.__stop: break, else the continue of except queue.Empty. *)
run_finally ==
    /\ pc = "finally"
    /\ pc' = IF stop THEN "break" ELSE IF cur = 0 THEN "get" ELSE "pop"
    /\ seen' = (seen \/ stop)
    /\ UNCHANGED <<q, enqueued, stop, cur, tasks, started, cancelled, stopAt>>
    /\ UNCHANGED <<idleVars, propVars, memoVars>>

run_pop ==
    /\ pc = "pop"
    /\ enqueued' = Dict([enqueued.d EXCEPT ![tasks[cur].name] = 0])
    /\ pc' = "enabled"
    /\ UNCHANGED <<q, stop, cur, tasks, started, cancelled, seen, stopAt>>
    /\ UNCHANGED <<idleVars, propVars, memoVars>>

(* if not task.enabled: continue, else task.func is called. *)
run_enabled ==
    /\ pc = "enabled"
    /\ IF tasks[cur].enabled
       THEN pc' = "func" /\ started' = started \cup {cur}
       ELSE pc' = "get" /\ UNCHANGED started
    /\ UNCHANGED <<q, enqueued, stop, cur, tasks, cancelled, seen, stopAt>>
    /\ UNCHANGED <<idleVars, propVars, memoVars>>

(* task.func returns, or raises out of run. *)
run_func ==
    /\ pc = "func"
    /\ pc' = IF tasks[cur].func.beh = "raises" THEN "raised" ELSE "get"
    /\ UNCHANGED <<q, enqueued, stop, cur, tasks, started, cancelled, seen, stopAt>>
    /\ UNCHANGED <<idleVars, propVars, memoVars>>

run_break ==
    /\ pc = "break"
    /\ q' = NoQueue
    /\ enqueued' = NoDict
    /\ pc' = "finished"
    /\ UNCHANGED <<stop, cur, tasks, started, cancelled, seen, stopAt>>
    /\ UNCHANGED <<idleVars, propVars, memoVars>>

TaskThread_run ==
    \/ run_get
    \/ run_finally
    \/ run_pop
    \/ run_enabled
    \/ run_func
    \/ run_break

ThreadNext ==
    \/ TaskThread_start
    \/ \E name \in TaskNames, func \in Functions("task") : TaskThread_enqueue(name, func)
    \/ \E name \in TaskNames : TaskThread_dequeue(name)
    \/ TaskThread_stop
    \/ TaskThread_run

ThreadSpec == ThreadInit /\ [][ThreadNext]_vars

(* C28: a task that waited in the queue when dequeue was called with its *)
(* name is never started afterwards, however many tasks were enqueued    *)
(* under that name.                                                      *)
C28_DequeuedNeverRuns == cancelled \cap started = {}

(* C29: whenever the thread is not between taking a task off the queue   *)
(* and calling it, isQueued(name) is True if and only if a task enqueued *)
(* under that name still waits in the queue.                             *)
C29_IsQueuedIffWaiting ==
    (pc \in {"new", "get", "func"})
    => \A name \in TaskNames :
           (TaskThread_isQueued(name) = "True") <=> (Waiting(name) # {})

(* The operating system schedules the thread, and get(timeout=1) returns *)
(* within a second, so a step of run that can be taken is taken.         *)
FairThreadSpec == ThreadSpec /\ WF_vars(TaskThread_run)

Ended == pc \in {"finished", "raised"}

(* C30: a call of stop leaves the running task to return by itself, no  *)
(* task is started once the loop has read the flag as set, and a loop   *)
(* that was started ends after stop, with tasks waiting or none at all. *)
C30_StopEndsRun ==
    /\ [][pc = "func" => pc' \in {"func", "get", "raised"}]_vars
    /\ [][seen => started' = started]_vars
    /\ (stop /\ pc # "new") ~> Ended

C30_Witness ==
    /\ stop /\ stopAt = "func" /\ seen /\ pc = "finished"
    /\ \E i \in 1..Len(tasks) : i \notin started /\ tasks[i].enabled

(***************************************************************************)
(* skipUnchanged: the clients call the decorated setter.                   *)
(***************************************************************************)
skipUnchanged_wrapper(name, value, func) ==
    /\ skipped' = [name |-> name, value |-> value, op |-> "wrapper", cached |-> cache[name],
                   called |-> ~skipUnchanged_skips(name, value),
                   ret |-> IF skipUnchanged_skips(name, value) THEN "False"
                           ELSE IF func.beh = "raises" THEN "raised" ELSE "True"]
    /\ cache' = IF skipUnchanged_skips(name, value) \/ func.beh = "raises"
                THEN cache ELSE [cache EXCEPT ![name] = value]
    /\ UNCHANGED <<idleVars, threadVars, propVars>>

MemoNext ==
    \E name \in Names, value \in SetterValues, func \in Functions("setter") :
        skipUnchanged_wrapper(name, value, func)

MemoSpecInit == MemoInit /\ IdleUnused /\ ThreadUnused /\ PropsUnused

MemoSpec == MemoSpecInit /\ [][MemoNext]_vars

(* C31: a call of the wrapped setter with a value of the kind cached for *)
(* the name (or with nothing cached) calls the function and returns True *)
(* if and only if nothing is cached for the name or the cached value     *)
(* differs from the given one; otherwise it returns False without a call. *)
C31_SkipsExactlyTheUnchanged ==
    (/\ skipped.op = "wrapper" /\ skipped.ret # "raised"
     /\ skipped.cached.k \in {"absent", skipped.value.k})
    => LET differs == skipped.cached = Absent \/ skipped.cached # skipped.value
       IN  /\ skipped.called <=> differs
           /\ skipped.ret = (IF differs THEN "True" ELSE "False")

StructuralOps == {"append", "extend", "pop", "move", "delitem"}

ListCalls == SelectSeq(log, LAMBDA c : c.obj = 0)

(* C32: append, extend, pop, move and __delitem__ that change the raw    *)
(* values run the list's pre-hook, listeners and post-hook exactly once, *)
(* each with the new raw values; one that changes neither the raw values *)
(* nor the validity runs none of them.                                   *)
C32_StructuralOpNotifiesOnce ==
    (res.op \in StructuralOps)
    => /\ (pv.value # old.pv.value)
          => /\ [i \in 1..Len(ListCalls) |-> [cb |-> ListCalls[i].cb, who |-> ListCalls[i].who]] = Owed
             /\ \A i \in 1..Len(ListCalls) :
                    ListCalls[i].value = pv.value /\ ListCalls[i].valid = pv.valid
       /\ (pv.value = old.pv.value /\ pv.valid = old.pv.valid) => ListCalls = <<>>

C32_Witness ==
    /\ res.op = "move" /\ res.exc = "none" /\ pv.value # old.pv.value
    /\ Len(ListCalls) = 3 /\ ListCalls[2].value = pv.value

(* C33: after any sequence of set (recreate=true) and __setitem__, the *)
(* child item at every index holds the raw value at that index.        *)
C33_ItemsMirrorRawValues ==
    \A i \in 1..Len(items) :
        i <= Len(pv.value.n) => PropertyValue_get(items[i]) = pv.value.n[i]

Strict(o) == ~o.allowInvalid /\ o.validate # "None"

Accepted(o) == ApplyValidate(o, PropertyValue_get(o)) = "none"

(* C34 as claimed: with allowInvalid false and a validate function, get() *)
(* returns a value the function accepts in every state, the constructed   *)
(* one included.                                                          *)
C34_AsClaimed == Strict(pv) => Accepted(pv)

(* C34: with allowInvalid false and a validate function, get() returns a  *)
(* value the function accepts after every set and revalidate that         *)
(* returns, and no operation replaces an accepted value by a rejected one. *)
C34_NoInvalidValueAfterSet ==
    Strict(pv)
    => /\ (res.op \in {"set", "revalidate"} /\ res.exc = "none") => Accepted(pv)
       /\ Accepted(old.pv) => Accepted(pv)

C34_Witness ==
    /\ Strict(pv) /\ res.op = "set" /\ res.exc = "ValueError"
    /\ Accepted(old.pv) /\ Accepted(pv) /\ pv = old.pv

(***************************************************************************)
(* The client's calls on a PropertyValue some of whose listeners call set  *)
(* on it.                                                                  *)
(***************************************************************************)
ReentrantNext ==
    \/ \E v \in Inputs : Set(v)
    \/ \E name \in ListenerNames, callback \in {"plain", "setter"} : AddListener(name, callback)
    \/ \E name \in ListenerNames : RemoveListener(name)

ReentrantSpec == Init /\ [][ReentrantNext]_vars

LastCallTo(key) ==
    LET at == {i \in 1..Len(log) : log[i].obj = 0 /\ log[i].who = key}
    IN  log[CHOOSE i \in at : \A j \in at : j <= i]

(* C35: when a set during whose dispatch a listener called set again has *)
(* returned, the last pair each registered listener was called with is   *)
(* the pair the object holds.                                            *)
C35_LastDeliveredIsCurrent ==
    (res.op = "set" /\ res.exc = "none")
    => \A k \in 1..Len(pv.changeListeners) :
           LET key == pv.changeListeners[k].name
           IN  CallsTo(key) > 0
               => /\ LastCallTo(key).value = PropertyValue_get(pv)
                  /\ LastCallTo(key).valid = pv.valid

(* C36: an extend that returns has added one child item per raw value it *)
(* added, in the same order, whether its argument can be traversed once  *)
(* or many times.                                                        *)
C36_ExtendAddsOneChildPerValue ==
    (res.op = "extend" /\ res.exc = "none")
    => LET nRaw   == Len(old.pv.value.n)
           nItems == Len(old.items)
       IN  /\ Len(items) - nItems = Len(pv.value.n) - nRaw
           /\ \A k \in 1..(Len(items) - nItems) :
                  PropertyValue_get(items[nItems + k]) = pv.value.n[nRaw + k]

(* C37: a list constructed without values has length 0 and no child     *)
(* items, and append and extend of values that can be cast return on it. *)
C37_NoValuesIsEmptyList ==
    /\ (pv.value = NoneList)
       => /\ PropertyValueList_len(Start) = [exc |-> "none", v |-> 0]
          /\ items = <<>>
    /\ (res.op \in {"append", "extend"} /\ old.pv.value = NoneList)
       => res.exc \in {"none", "TypeError", "ValueError"}

InQueue(i) == \E k \in 1..Len(q.v) : q.v[k] = i

Executed(i) == Len(tasks) >= i /\ (i \in started \/ ~tasks[i].enabled)

(* C38: while the thread runs and stop has not been called, every task *)
(* that was enqueued and not dequeued is started, tasks are started in *)
(* the order of their enqueueing, and a task that raises does not keep *)
(* the tasks after it from being started.                              *)
C38_EveryTaskRuns ==
    /\ [][\A i \in started' \ started : \A j \in 1..(i - 1) : ~InQueue(j)]_vars
    /\ \A i \in 1..MaxTasks :
           (Len(tasks) >= i /\ pc # "new") ~> (Executed(i) \/ stop)
====
